---- MODULE Spec2Model ----
(***************************************************************************)
(* Viewport tracking of the sports-motion pipeline:                        *)
(*   calculate_region_of_interest  (viewport_tracker.py and                *)
(*                                  viewport_tracker_kalman.py)            *)
(*   track_viewport, EMA smoothing (viewport_tracker.py)                   *)
(*   track_viewport, Kalman filter (viewport_tracker_kalman.py)            *)
(***************************************************************************)
EXTENDS Integers, Sequences, FiniteSets, TLC

(***************************************************************************)
(* Bounds of the model.                                                    *)
(***************************************************************************)
\* longest frame list passed to track_viewport
MaxFrames == 3
\* largest frame width / height; the smallest is MaxDim - 1, so that one
\* even and one odd size are always present
MaxDim == 9
\* longest box list passed to calculate_region_of_interest on its own
MaxBoxes == 2
\* largest box origin coordinate and largest box side in those lists
MaxCoord == 3
MaxSide == 3

(***************************************************************************)
(* Python float arithmetic (IEEE-754 binary64, round to nearest, ties to   *)
(* even) on the non-negative values the EMA update produces.  A value v is *)
(* the tuple <<l0, l1, l2, l3>> of base-2^18 limbs of the natural number   *)
(* v * 2^54 = l0 + l1*2^18 + l2*2^36 + l3*2^54.  Every double in           *)
(* [1/4, 2^30) is a multiple of 2^-54, so sums and products by small       *)
(* integers are exact in this form before they are rounded to 53 bits.     *)
(***************************************************************************)
Limb == 2^18

BigAdd(a, b) ==
  LET t0 == a[1] + b[1]
      t1 == a[2] + b[2] + (t0 \div Limb)
      t2 == a[3] + b[3] + (t1 \div Limb)
  IN  <<t0 % Limb, t1 % Limb, t2 % Limb, a[4] + b[4] + (t2 \div Limb)>>

\* a - b for a >= b
BigSub(a, b) ==
  LET t0 == a[1] - b[1]
      t1 == a[2] - b[2] + (t0 \div Limb)
      t2 == a[3] - b[3] + (t1 \div Limb)
  IN  <<t0 % Limb, t1 % Limb, t2 % Limb, a[4] - b[4] + (t2 \div Limb)>>

BigMulInt(a, n) ==
  LET t0 == a[1] * n
      t1 == a[2] * n + (t0 \div Limb)
      t2 == a[3] * n + (t1 \div Limb)
  IN  <<t0 % Limb, t1 % Limb, t2 % Limb, a[4] * n + (t2 \div Limb)>>

RECURSIVE BitLen(_)
BitLen(n) == IF n = 0 THEN 0 ELSE 1 + BitLen(n \div 2)

\* number of low bits that do not fit a 53-bit significand
ExcessBits(a) ==
  IF a[4] > 0 THEN 1 + BitLen(a[4])
  ELSE IF a[3] >= 2^17 THEN 1 ELSE 0

\* the double nearest to the exact value a, ties to even
RoundDouble(a) ==
  LET s    == ExcessBits(a)
      p    == 2^s
      r    == a[1] % p
      odd  == ((a[1] \div p) % 2) = 1
      down == <<a[1] - r, a[2], a[3], a[4]>>
      up   == s > 0 /\ (2 * r > p \/ (2 * r = p /\ odd))
  IN  IF up THEN BigAdd(down, <<p, 0, 0, 0>>) ELSE down

\* an int operand is converted to float exactly
FloatOfInt(n) == <<0, 0, 0, n>>

\* float * int
FloatMulInt(a, n) == RoundDouble(BigMulInt(a, n))

\* float + float
FloatAdd(a, b) == RoundDouble(BigAdd(a, b))

\* int - float, for n >= b
IntSubFloat(n, b) == RoundDouble(BigSub(FloatOfInt(n), b))

\* int(v) for a float v >= 0: truncation
IntOfFloat(a) == a[4]

\* the float literals 0.0, 0.3 and 1.0
Float00 == <<0, 0, 0, 0>>
Float03 == <<209715, 52428, 78643, 0>>
Float10 == <<0, 0, 0, 1>>

(***************************************************************************)
(* State.                                                                  *)
(*   A call of track_viewport: its arguments, its locals and its outcome.  *)
(*   Frames of one run share their dimensions, so the frame list is its    *)
(*   length nFrames and the common shape (height, width).                  *)
(*   A call of calculate_region_of_interest on its own: roi_*.             *)
(***************************************************************************)
VARIABLES tracker, frame_shape, nFrames, motion_results, viewport_size,
          smoothing_factor, pc, i, prev_x, prev_y, viewport_positions,
          kf_x, kf_P, n_predict, n_update, raised,
          roi_boxes, roi_shape, roi_pc, roi_k, roi_acc, roi_result, roi_raised

trackVars == <<tracker, frame_shape, nFrames, motion_results, viewport_size,
               smoothing_factor, pc, i, prev_x, prev_y, viewport_positions,
               kf_x, kf_P, n_predict, n_update, raised>>
roiVars == <<roi_boxes, roi_shape, roi_pc, roi_k, roi_acc, roi_result, roi_raised>>
vars == <<trackVars, roiVars>>

Max(a, b) == IF a >= b THEN a ELSE b
Min(a, b) == IF a <= b THEN a ELSE b

\* height, width = frame_shape[:2]
ShapeHeight(shape) == shape[1]
ShapeWidth(shape) == shape[2]

(***************************************************************************)
(* calculate_region_of_interest(motion_boxes, frame_shape)                 *)
(***************************************************************************)
\* a box is <<x, y, w, h>>
BoxArea(b) == b[3] * b[4]

BoxCenterCorner(b) == <<b[1] + b[3], b[2] + b[4]>>
BoxCenter(b) == <<b[1] + (b[3] \div 2), b[2] + (b[4] \div 2)>>

RoiZero == [total_area |-> 0, weighted_x_sum |-> 0, weighted_y_sum |-> 0]

\* one pass of the loop body over box b
RoiAccumulate(acc, b) ==
  [total_area     |-> acc.total_area + BoxArea(b),
   weighted_x_sum |-> acc.weighted_x_sum + BoxCenter(b)[1] * BoxArea(b),
   weighted_y_sum |-> acc.weighted_y_sum + BoxCenter(b)[2] * BoxArea(b)]

\* the sums after the first k boxes
RECURSIVE RoiSums(_, _)
RoiSums(boxes, k) ==
  IF k = 0 THEN RoiZero ELSE RoiAccumulate(RoiSums(boxes, k - 1), boxes[k])

\* int(a / b) for integers a and b > 0: the quotient of two integers of this
\* size is correctly rounded and lies at least 1/b from the next integer unless
\* it is one, so int() of it is the quotient truncated toward zero
PyIntDiv(a, b) == IF a >= 0 THEN a \div b ELSE -((-a) \div b)

RoiDefault(shape) == <<ShapeWidth(shape) \div 2, ShapeHeight(shape) \div 2, 0, 0>>

RoiAverage(acc) ==
  <<PyIntDiv(acc.weighted_x_sum, acc.total_area),
    PyIntDiv(acc.weighted_y_sum, acc.total_area), 0, 0>>

\* the value returned for boxes of positive total area, or for no boxes
CalcRoi(boxes, shape) ==
  IF boxes = <<>> THEN RoiDefault(shape)
  ELSE RoiAverage(RoiSums(boxes, Len(boxes)))

(***************************************************************************)
(* The clamp and the EMA update of track_viewport (viewport_tracker.py).   *)
(***************************************************************************)
\* viewport_size[k] // 2
HalfSizeWhole(v) == v
HalfSize(v) == v \div 2

\* max(half, min(frame_dim - half, smoothed))
ClampUpperOnly(half, dim, s) == Min(dim - half, s)
Clamp(half, dim, s) == Max(half, Min(dim - half, s))

\* int(smoothing_factor * c + (1 - smoothing_factor) * prev)
EmaSmoothSwapped(alpha, c, prev) ==
  IntOfFloat(FloatAdd(FloatMulInt(alpha, prev),
                      FloatMulInt(IntSubFloat(1, alpha), c)))
EmaSmooth(alpha, c, prev) ==
  IntOfFloat(FloatAdd(FloatMulInt(alpha, c),
                      FloatMulInt(IntSubFloat(1, alpha), prev)))

\* prev_x, prev_y = smoothed_x, smoothed_y: the value fed back is the one
\* the clamp produced
EmaFeedbackUnclamped(clamped, unclamped) == unclamped
EmaFeedback(clamped, unclamped) == clamped

(***************************************************************************)
(* The Kalman filter of viewport_tracker_kalman.py.  filterpy computes in  *)
(* float64; here state and covariance are kept in hundredths, each         *)
(* quotient truncated, so an estimate is within about a hundredth of a     *)
(* pixel of the float one and exact where the residual is zero.  F, H, P,  *)
(* Q and R treat the two axes alike and never couple them, so the 4x4      *)
(* covariance is two equal 2x2 blocks <<p_pos, p_cross, p_vel>>.           *)
(***************************************************************************)
StateScale == 10^2
CovScale == 10^2
GainScale == 10^4

\* kf.P *= 1000.
InitialCovariance == 1000
\* kf.R *= 5.
MeasurementNoise == 5
\* kf.Q = np.eye(4) * 0.03, in hundredths
ProcessNoiseHundredths == 3

\* the filter initialize_kalman_filter returns: x = 0, P = 1000 * I
KalmanInitialState == <<0, 0, 0, 0>>
KalmanInitialP == <<InitialCovariance * CovScale, 0, InitialCovariance * CovScale>>

\* kf.x = np.array([[cx], [cy], [0], [0]])
KalmanFirstStateSwapped(cx, cy) == <<cy * StateScale, cx * StateScale, 0, 0>>
KalmanFirstState(cx, cy) == <<cx * StateScale, cy * StateScale, 0, 0>>

\* kf.predict(): x = F x, P = F P F' + Q
KalmanPredict(x, P) ==
  [x |-> <<x[1] + x[3], x[2] + x[4], x[3], x[4]>>,
   P |-> <<P[1] + 2 * P[2] + P[3] + ProcessNoiseHundredths,
           P[2] + P[3],
           P[3] + ProcessNoiseHundredths>>]

\* the update with residual y: S = H P H' + R, K = P H' / S,
\* x = x + K y, P = (I - K H) P
KalmanCorrect(x, P, yx, yy) ==
  LET R == MeasurementNoise * CovScale
      S == P[1] + R
  IN  [x |-> <<x[1] + PyIntDiv(P[1] * yx, S),
               x[2] + PyIntDiv(P[1] * yy, S),
               x[3] + PyIntDiv(P[2] * yx, S),
               x[4] + PyIntDiv(P[2] * yy, S)>>,
       P |-> <<(P[1] * R) \div S,
               (P[2] * R) \div S,
               P[3] - ((P[2] * ((P[2] * GainScale) \div S)) \div GainScale)>>]

\* kf.update(z): y = z - H x
KalmanUpdateNoResidual(x, P, cx, cy) ==
  KalmanCorrect(x, P, cx * StateScale, cy * StateScale)
KalmanUpdate(x, P, cx, cy) ==
  KalmanCorrect(x, P, cx * StateScale - x[1], cy * StateScale - x[2])

\* int(kf.x[0]), int(kf.x[1])
KalmanPosition(x) == <<PyIntDiv(x[1], StateScale), PyIntDiv(x[2], StateScale)>>

(***************************************************************************)
(* Inputs of a call of track_viewport.                                     *)
(***************************************************************************)
SeqsUpTo(S, n) == UNION {[1..k -> S] : k \in 0..n}

Dims == (MaxDim - 1)..MaxDim
FrameShapes == Dims \X Dims

\* what detect_motion can report for a frame of this shape: boxes of positive
\* area inside the frame
MotionCatalog(shape) ==
  LET W == ShapeWidth(shape)
      H == ShapeHeight(shape)
  IN  { <<>>,
        << <<2, 2, 2, 2>> >>,
        << <<W - 2, H - 2, 2, 2>> >>,
        << <<0, 0, 2, 2>>, <<W - 4, H - 4, 4, 4>> >> }

\* (width, height) of the viewport: small, two short of the frame, the whole
\* frame, and sizes no frame can hold or that are not positive
ViewportSizes(shape) ==
  LET W == ShapeWidth(shape)
      H == ShapeHeight(shape)
  IN  { <<2, 2>>, <<W - 2, H - 2>>, <<W, H>>, <<0, 2>>, <<2, H + 1>> }

\* 0.3 is the default; 0.0 is outside (0, 1]
SmoothingFactors == {Float00, Float03, Float10}

\* the motion results passed with n frames: one per frame, one too many (the
\* surplus one is never read), or one too few
MotionLists(shape, n) ==
  LET exact == [1..n -> MotionCatalog(shape)]
  IN  exact \cup {Append(m, <<>>) : m \in exact}
            \cup (IF n > 0 THEN [1..(n - 1) -> MotionCatalog(shape)] ELSE {})

\* i in range(len(frames)) starts at 0
LoopStartOne == 0 + 1
LoopStart == 0

TrackIdle ==
  /\ tracker = "none" /\ frame_shape = <<0, 0>> /\ nFrames = 0
  /\ motion_results = <<>> /\ viewport_size = <<0, 0>>
  /\ smoothing_factor = <<>> /\ pc = "idle" /\ i = 0
  /\ prev_x = 0 /\ prev_y = 0 /\ viewport_positions = <<>>
  /\ kf_x = KalmanInitialState /\ kf_P = <<0, 0, 0>>
  /\ n_predict = 0 /\ n_update = 0 /\ raised = "none"

RoiIdle ==
  /\ roi_boxes = <<>> /\ roi_shape = <<0, 0>> /\ roi_pc = "idle" /\ roi_k = 0
  /\ roi_acc = RoiZero /\ roi_result = <<>> /\ roi_raised = "none"

TrackInit ==
  /\ tracker \in {"ema", "kalman"}
  /\ frame_shape \in FrameShapes
  /\ viewport_size \in ViewportSizes(frame_shape)
  /\ smoothing_factor \in (IF tracker = "ema" THEN SmoothingFactors ELSE {<<>>})
  /\ nFrames \in 0..MaxFrames
  /\ motion_results \in MotionLists(frame_shape, nFrames)
  /\ pc = "call" /\ i = 0
  /\ prev_x = 0 /\ prev_y = 0 /\ viewport_positions = <<>>
  /\ kf_x = KalmanInitialState /\ kf_P = <<0, 0, 0>>
  /\ n_predict = 0 /\ n_update = 0 /\ raised = "none"

Init == TrackInit /\ RoiIdle

(***************************************************************************)
(* track_viewport(frames, motion_results, viewport_size, smoothing_factor) *)
(* of viewport_tracker.py                                                  *)
(***************************************************************************)
FrameWidth == ShapeWidth(frame_shape)
FrameHeight == ShapeHeight(frame_shape)
half_w == HalfSize(viewport_size[1])
half_h == HalfSize(viewport_size[2])

\* no frames: return []
EmaReturnEmpty ==
  /\ tracker = "ema" /\ pc = "call" /\ nFrames = 0
  /\ pc' = "done"
  /\ UNCHANGED roiVars
  /\ UNCHANGED <<tracker, frame_shape, nFrames, motion_results, viewport_size,
                 smoothing_factor, i, prev_x, prev_y, viewport_positions,
                 kf_x, kf_P, n_predict, n_update, raised>>

\* prev_x, prev_y = width // 2, height // 2 of frames[0]
EmaEnter ==
  /\ tracker = "ema" /\ pc = "call" /\ nFrames > 0
  /\ prev_x' = FrameWidth \div 2
  /\ prev_y' = FrameHeight \div 2
  /\ i' = LoopStart
  /\ pc' = "loop"
  /\ UNCHANGED roiVars
  /\ UNCHANGED <<tracker, frame_shape, nFrames, motion_results, viewport_size,
                 smoothing_factor, viewport_positions,
                 kf_x, kf_P, n_predict, n_update, raised>>

\* motion_results[i] with i past the end of the list
EmaIndexError ==
  /\ tracker = "ema" /\ pc = "loop" /\ i < nFrames
  /\ i >= Len(motion_results)
  /\ pc' = "raised"
  /\ raised' = "IndexError"
  /\ UNCHANGED roiVars
  /\ UNCHANGED <<tracker, frame_shape, nFrames, motion_results, viewport_size,
                 smoothing_factor, i, prev_x, prev_y, viewport_positions,
                 kf_x, kf_P, n_predict, n_update>>

\* one pass of the loop body
EmaStep ==
  /\ tracker = "ema" /\ pc = "loop" /\ i < nFrames
  /\ i < Len(motion_results)
  /\ LET roi == CalcRoi(motion_results[i + 1], frame_shape)
         ux  == EmaSmooth(smoothing_factor, roi[1], prev_x)
         uy  == EmaSmooth(smoothing_factor, roi[2], prev_y)
         sx  == Clamp(half_w, FrameWidth, ux)
         sy  == Clamp(half_h, FrameHeight, uy)
     IN  /\ viewport_positions' = Append(viewport_positions, <<sx, sy>>)
         /\ prev_x' = EmaFeedback(sx, ux)
         /\ prev_y' = EmaFeedback(sy, uy)
  /\ i' = i + 1
  /\ UNCHANGED roiVars
  /\ UNCHANGED <<tracker, frame_shape, nFrames, motion_results, viewport_size,
                 smoothing_factor, pc, kf_x, kf_P, n_predict, n_update, raised>>

\* return viewport_positions
EmaReturn ==
  /\ tracker = "ema" /\ pc = "loop" /\ i >= nFrames
  /\ pc' = "done"
  /\ UNCHANGED roiVars
  /\ UNCHANGED <<tracker, frame_shape, nFrames, motion_results, viewport_size,
                 smoothing_factor, i, prev_x, prev_y, viewport_positions,
                 kf_x, kf_P, n_predict, n_update, raised>>

(***************************************************************************)
(* track_viewport(frames, motion_results, viewport_size)                   *)
(* of viewport_tracker_kalman.py                                           *)
(***************************************************************************)
KalmanReturnEmpty ==
  /\ tracker = "kalman" /\ pc = "call" /\ nFrames = 0
  /\ pc' = "done"
  /\ UNCHANGED roiVars
  /\ UNCHANGED <<tracker, frame_shape, nFrames, motion_results, viewport_size,
                 smoothing_factor, i, prev_x, prev_y, viewport_positions,
                 kf_x, kf_P, n_predict, n_update, raised>>

\* kf = initialize_kalman_filter()
KalmanEnter ==
  /\ tracker = "kalman" /\ pc = "call" /\ nFrames > 0
  /\ kf_x' = KalmanInitialState
  /\ kf_P' = KalmanInitialP
  /\ i' = LoopStart
  /\ pc' = "loop"
  /\ UNCHANGED roiVars
  /\ UNCHANGED <<tracker, frame_shape, nFrames, motion_results, viewport_size,
                 smoothing_factor, prev_x, prev_y, viewport_positions,
                 n_predict, n_update, raised>>

KalmanIndexError ==
  /\ tracker = "kalman" /\ pc = "loop" /\ i < nFrames
  /\ i >= Len(motion_results)
  /\ pc' = "raised"
  /\ raised' = "IndexError"
  /\ UNCHANGED roiVars
  /\ UNCHANGED <<tracker, frame_shape, nFrames, motion_results, viewport_size,
                 smoothing_factor, i, prev_x, prev_y, viewport_positions,
                 kf_x, kf_P, n_predict, n_update>>

\* one pass of the loop body: the state is set on frame 0, then predict and
\* update run on every frame
KalmanStep ==
  /\ tracker = "kalman" /\ pc = "loop" /\ i < nFrames
  /\ i < Len(motion_results)
  /\ LET roi  == CalcRoi(motion_results[i + 1], frame_shape)
         x0   == IF i = 0 THEN KalmanFirstState(roi[1], roi[2]) ELSE kf_x
         pred == KalmanPredict(x0, kf_P)
         upd  == KalmanUpdate(pred.x, pred.P, roi[1], roi[2])
         pos  == KalmanPosition(upd.x)
         sx   == Clamp(half_w, FrameWidth, pos[1])
         sy   == Clamp(half_h, FrameHeight, pos[2])
     IN  /\ kf_x' = upd.x
         /\ kf_P' = upd.P
         /\ viewport_positions' = Append(viewport_positions, <<sx, sy>>)
  /\ n_predict' = n_predict + 1
  /\ n_update' = n_update + 1
  /\ i' = i + 1
  /\ UNCHANGED roiVars
  /\ UNCHANGED <<tracker, frame_shape, nFrames, motion_results, viewport_size,
                 smoothing_factor, pc, prev_x, prev_y, raised>>

KalmanReturn ==
  /\ tracker = "kalman" /\ pc = "loop" /\ i >= nFrames
  /\ pc' = "done"
  /\ UNCHANGED roiVars
  /\ UNCHANGED <<tracker, frame_shape, nFrames, motion_results, viewport_size,
                 smoothing_factor, i, prev_x, prev_y, viewport_positions,
                 kf_x, kf_P, n_predict, n_update, raised>>

Next ==
  \/ EmaReturnEmpty
  \/ EmaEnter
  \/ EmaIndexError
  \/ EmaStep
  \/ EmaReturn
  \/ KalmanReturnEmpty
  \/ KalmanEnter
  \/ KalmanIndexError
  \/ KalmanStep
  \/ KalmanReturn

Spec == Init /\ [][Next]_vars

(***************************************************************************)
(* A call of calculate_region_of_interest on its own, one loop pass per    *)
(* step.  The two files hold the same function.                            *)
(***************************************************************************)
RoiBoxes == {0, MaxCoord} \X {0, MaxCoord} \X {0, 1, MaxSide} \X {0, 1, MaxSide}

\* the two equal boxes in opposite corners of a 100 x 100 frame
CornerBoxes == << <<0, 0, 10, 10>>, <<90, 90, 10, 10>> >>

RoiInit ==
  /\ roi_boxes \in SeqsUpTo(RoiBoxes, MaxBoxes) \cup {CornerBoxes}
  /\ roi_shape \in FrameShapes
  /\ roi_pc = "call" /\ roi_k = 0
  /\ roi_acc = RoiZero /\ roi_result = <<>> /\ roi_raised = "none"

\* if not motion_boxes: return (width // 2, height // 2, 0, 0)
RoiReturnDefault ==
  /\ roi_pc = "call" /\ roi_boxes = <<>>
  /\ roi_result' = RoiDefault(roi_shape)
  /\ roi_pc' = "returned"
  /\ UNCHANGED <<roi_boxes, roi_shape, roi_k, roi_acc, roi_raised>>
  /\ UNCHANGED trackVars

\* total_area = 0; weighted_x_sum = 0; weighted_y_sum = 0
RoiEnterLoop ==
  /\ roi_pc = "call" /\ roi_boxes # <<>>
  /\ roi_acc' = RoiZero
  /\ roi_k' = 0
  /\ roi_pc' = "loop"
  /\ UNCHANGED <<roi_boxes, roi_shape, roi_result, roi_raised>>
  /\ UNCHANGED trackVars

\* for (x, y, w, h) in motion_boxes: ...
RoiLoopBody ==
  /\ roi_pc = "loop" /\ roi_k < Len(roi_boxes)
  /\ roi_acc' = RoiAccumulate(roi_acc, roi_boxes[roi_k + 1])
  /\ roi_k' = roi_k + 1
  /\ UNCHANGED <<roi_boxes, roi_shape, roi_pc, roi_result, roi_raised>>
  /\ UNCHANGED trackVars

\* weighted_x_sum / total_area with total_area = 0
RoiZeroDivision ==
  /\ roi_pc = "loop" /\ roi_k = Len(roi_boxes)
  /\ roi_acc.total_area = 0
  /\ roi_raised' = "ZeroDivisionError"
  /\ roi_pc' = "raised"
  /\ UNCHANGED <<roi_boxes, roi_shape, roi_k, roi_acc, roi_result>>
  /\ UNCHANGED trackVars

\* return (avg_x, avg_y, 0, 0)
RoiReturnAverage ==
  /\ roi_pc = "loop" /\ roi_k = Len(roi_boxes)
  /\ roi_acc.total_area # 0
  /\ roi_result' = RoiAverage(roi_acc)
  /\ roi_pc' = "returned"
  /\ UNCHANGED <<roi_boxes, roi_shape, roi_k, roi_acc, roi_raised>>
  /\ UNCHANGED trackVars

NextRoi ==
  \/ RoiReturnDefault
  \/ RoiEnterLoop
  \/ RoiLoopBody
  \/ RoiZeroDivision
  \/ RoiReturnAverage

InitRoi == TrackIdle /\ RoiInit

SpecRoi == InitRoi /\ [][NextRoi]_vars

(***************************************************************************)
(* Properties.                                                             *)
(***************************************************************************)
Abs(n) == IF n >= 0 THEN n ELSE -n

\* the call is past its entry
Running == pc \in {"loop", "done", "raised"}

\* the ROI of the k-th frame (k = 1 is frame index 0)
RoiOfFrame(k) == CalcRoi(motion_results[k], frame_shape)

\* 0 < vw <= frame width and 0 < vh <= frame height
ValidViewport ==
  /\ 0 < viewport_size[1] /\ viewport_size[1] <= FrameWidth
  /\ 0 < viewport_size[2] /\ viewport_size[2] <= FrameHeight

Produced == 1..Len(viewport_positions)

\* C1: with a viewport that is positive and no larger than the frame, every
\* position either tracker has produced satisfies
\* vw // 2 <= x <= width - vw // 2 and vh // 2 <= y <= height - vh // 2.
C1_BoundsInvariant ==
  ValidViewport =>
    \A k \in Produced :
      /\ viewport_size[1] \div 2 <= viewport_positions[k][1]
      /\ viewport_positions[k][1] <= FrameWidth - (viewport_size[1] \div 2)
      /\ viewport_size[2] \div 2 <= viewport_positions[k][2]
      /\ viewport_positions[k][2] <= FrameHeight - (viewport_size[2] \div 2)

\* a finished run that was held at the lower bound on one frame and at the
\* upper bound on another, the ROI lying outside the bounds both times
C1_Witness ==
  /\ ValidViewport /\ pc = "done" /\ tracker = "kalman"
  /\ viewport_size[1] \div 2 < FrameWidth - (viewport_size[1] \div 2)
  /\ \E j \in Produced, k \in Produced :
       /\ RoiOfFrame(j)[1] < viewport_size[1] \div 2
       /\ viewport_positions[j][1] = viewport_size[1] \div 2
       /\ RoiOfFrame(k)[1] > FrameWidth - (viewport_size[1] \div 2)
       /\ viewport_positions[k][1] = FrameWidth - (viewport_size[1] \div 2)

\* C3 as stated: with the viewport as large as the frame, every position is
\* the exact frame center (width // 2, height // 2), for odd and even sizes.
C3_AlwaysExactCenter ==
  viewport_size = <<FrameWidth, FrameHeight>> =>
    \A k \in Produced :
      viewport_positions[k] = <<FrameWidth \div 2, FrameHeight \div 2>>

\* C3 amended: with the viewport as large as the frame, each coordinate of
\* every position is the frame center when that frame dimension is even, and
\* the center or the center plus one when it is odd.
C3_CenterOrOneAbove ==
  viewport_size = <<FrameWidth, FrameHeight>> =>
    \A k \in Produced :
      /\ viewport_positions[k][1] \in
           {FrameWidth \div 2, (FrameWidth \div 2) + (FrameWidth % 2)}
      /\ viewport_positions[k][2] \in
           {FrameHeight \div 2, (FrameHeight \div 2) + (FrameHeight % 2)}

\* a full-frame viewport on a frame of odd width and even height, with one
\* position at the center and one a pixel to its right
C3_Witness ==
  /\ viewport_size = <<FrameWidth, FrameHeight>>
  /\ FrameWidth % 2 = 1 /\ FrameHeight % 2 = 0
  /\ \E j \in Produced, k \in Produced :
       /\ viewport_positions[j] = <<FrameWidth \div 2, FrameHeight \div 2>>
       /\ viewport_positions[k] = <<(FrameWidth \div 2) + 1, FrameHeight \div 2>>

\* every frame processed so far had the same ROI, and it lies within the
\* clamp bounds of a viewport that fits the frame
ConstantRoiInBounds ==
  /\ ValidViewport
  /\ Produced # {}
  /\ \A k \in Produced : RoiOfFrame(k) = RoiOfFrame(1)
  /\ half_w <= RoiOfFrame(1)[1] /\ RoiOfFrame(1)[1] <= FrameWidth - half_w
  /\ half_h <= RoiOfFrame(1)[2] /\ RoiOfFrame(1)[2] <= FrameHeight - half_h

\* the smoothing factor is in (0, 1]
SmoothingInRange == smoothing_factor \in {Float03, Float10}

\* distance of the k-th position from the constant ROI, per axis c = 1, 2
RoiDistance(k, c) == Abs(viewport_positions[k][c] - RoiOfFrame(1)[c])

\* C4 as stated: under a constant in-bounds ROI and a factor in (0, 1] the
\* distance to the ROI never increases from one frame to the next, the
\* position comes to rest only at the ROI, and with factor 1 every position
\* is the ROI.
C4_MonotoneAndConverges ==
  (tracker = "ema" /\ SmoothingInRange /\ ConstantRoiInBounds) =>
    /\ \A k \in Produced, c \in {1, 2} :
         k + 1 \in Produced =>
           /\ RoiDistance(k + 1, c) <= RoiDistance(k, c)
           /\ (viewport_positions[k + 1][c] = viewport_positions[k][c]
                 => RoiDistance(k, c) = 0)
    /\ smoothing_factor = Float10 =>
         \A k \in Produced : RoiDistance(k, 1) = 0 /\ RoiDistance(k, 2) = 0

\* C4 amended: under a constant in-bounds ROI, with factor 0.3 or 1, the
\* distance to the ROI never increases from a position that differs from the
\* ROI, a position at the ROI moves away by at most one pixel, and with
\* factor 1 every position is the ROI.
C4_DampedUntilReached ==
  (tracker = "ema" /\ SmoothingInRange /\ ConstantRoiInBounds) =>
    /\ \A k \in Produced, c \in {1, 2} :
         k + 1 \in Produced =>
           /\ RoiDistance(k, c) # 0
                => RoiDistance(k + 1, c) <= RoiDistance(k, c)
           /\ RoiDistance(k, c) = 0 => RoiDistance(k + 1, c) <= 1
    /\ smoothing_factor = Float10 =>
         \A k \in Produced : RoiDistance(k, 1) = 0 /\ RoiDistance(k, 2) = 0

\* factor 0.3, constant in-bounds ROI: a position that reached the ROI and
\* the next one, which left it
C4_Witness ==
  /\ tracker = "ema" /\ smoothing_factor = Float03 /\ ConstantRoiInBounds
  /\ \E k \in Produced :
       /\ k + 1 \in Produced
       /\ RoiDistance(k, 1) = 0
       /\ RoiDistance(k + 1, 1) = 1

\* C5 as stated: the one position the Kalman tracker returns for a
\* one-frame sequence (and a viewport that fits the frame) is the (x, y) of
\* that frame's ROI.
C5_FirstFrameIsRoi ==
  (tracker = "kalman" /\ pc = "done" /\ nFrames = 1 /\ ValidViewport) =>
    viewport_positions = << <<RoiOfFrame(1)[1], RoiOfFrame(1)[2]>> >>

\* C5 amended: the one position the Kalman tracker returns for a one-frame
\* sequence is that frame's ROI clamped to the viewport bounds, hence the
\* ROI itself whenever the ROI lies within the bounds.
C5_FirstFrameIsClampedRoi ==
  (tracker = "kalman" /\ pc = "done" /\ nFrames = 1) =>
    viewport_positions =
      << << Max(viewport_size[1] \div 2,
                Min(FrameWidth - (viewport_size[1] \div 2), RoiOfFrame(1)[1])),
            Max(viewport_size[2] \div 2,
                Min(FrameHeight - (viewport_size[2] \div 2), RoiOfFrame(1)[2])) >> >>

\* a one-frame Kalman run that returned, its ROI right of the viewport
\* bounds in x and within them in y
C5_Witness ==
  /\ tracker = "kalman" /\ pc = "done" /\ nFrames = 1 /\ ValidViewport
  /\ RoiOfFrame(1)[1] > FrameWidth - (viewport_size[1] \div 2)
  /\ RoiOfFrame(1)[2] <= FrameHeight - (viewport_size[2] \div 2)
  /\ RoiOfFrame(1)[2] >= viewport_size[2] \div 2
  /\ Len(viewport_positions) = 1

\* the configurations the error taxonomy calls invalid
InvalidConfig ==
  \/ tracker = "ema" /\ smoothing_factor \notin {Float03, Float10}
  \/ viewport_size[1] <= 0 \/ viewport_size[2] <= 0
  \/ viewport_size[1] > FrameWidth \/ viewport_size[2] > FrameHeight

\* C7: a call with an invalid configuration and at least one frame is
\* rejected with InvalidConfig: it produces no position, does not return,
\* and raises nothing else.
C7_InvalidConfigRejected ==
  (InvalidConfig /\ nFrames > 0) =>
    /\ viewport_positions = <<>>
    /\ pc # "done"
    /\ pc = "raised" => raised = "InvalidConfig"

\* C8 as stated: a call (with a valid configuration) that returns has
\* produced as many positions as there are frames and as there are motion
\* results.
C8_LengthsAllEqual ==
  (pc = "done" /\ ~InvalidConfig) =>
    /\ Len(viewport_positions) = nFrames
    /\ Len(viewport_positions) = Len(motion_results)

\* C8 amended: positions are produced one per frame index in increasing
\* order, a call that returns has produced as many positions as there are
\* frames, and at least that many motion results were passed (more are
\* ignored); no frames give no positions.
C8_OnePositionPerFrame ==
  /\ Running => Len(viewport_positions) = i
  /\ pc = "done" =>
       /\ Len(viewport_positions) = nFrames
       /\ nFrames <= Len(motion_results)
  /\ (pc = "done" /\ nFrames = 0) => viewport_positions = <<>>

\* a call that returned one position for each of several frames while a
\* surplus motion result was passed
C8_Witness ==
  /\ pc = "done" /\ nFrames >= 2 /\ ~InvalidConfig
  /\ Len(viewport_positions) = nFrames
  /\ Len(motion_results) = nFrames + 1

\* C9 as stated: frame 0 sets the state from the ROI and runs neither
\* predict nor update, so state and covariance after it are the initial
\* ones; every later frame runs one predict and one update.
C9_FirstFrameBypassesFilter ==
  (tracker = "kalman" /\ Running /\ i >= 1 /\ ValidViewport) =>
    /\ n_predict = i - 1
    /\ n_update = i - 1
    /\ i = 1 => /\ kf_x = <<RoiOfFrame(1)[1] * StateScale,
                            RoiOfFrame(1)[2] * StateScale, 0, 0>>
                /\ kf_P = <<InitialCovariance * CovScale, 0,
                            InitialCovariance * CovScale>>

\* C9 amended: frame 0 sets the state from the ROI and then, like every
\* later frame, runs one predict and one update; after frame 0 the state is
\* still [cx, cy, 0, 0] and the covariance is no longer the initial one.
C9_EveryFrameRunsFilter ==
  (tracker = "kalman" /\ Running) =>
    /\ n_predict = i
    /\ n_update = i
    /\ i = 1 => /\ kf_x = <<RoiOfFrame(1)[1] * StateScale,
                            RoiOfFrame(1)[2] * StateScale, 0, 0>>
                /\ kf_P # <<InitialCovariance * CovScale, 0,
                            InitialCovariance * CovScale>>

\* the Kalman tracker right after frame 0, on an ROI away from the origin
C9_Witness ==
  /\ tracker = "kalman" /\ pc = "loop" /\ i = 1 /\ ValidViewport
  /\ n_predict = 1 /\ n_update = 1
  /\ RoiOfFrame(1)[1] > 0

\* C10: in the EMA tracker the previous position is the frame center before
\* the first frame and afterwards the clamped position appended last, and
\* each position is the clamped smoothing of its predecessor and the ROI.
C10_ClampedFeedback ==
  (tracker = "ema" /\ Running /\ nFrames > 0) =>
    /\ viewport_positions = <<>>
         => <<prev_x, prev_y>> = <<FrameWidth \div 2, FrameHeight \div 2>>
    /\ viewport_positions # <<>>
         => <<prev_x, prev_y>> = viewport_positions[Len(viewport_positions)]
    /\ \A k \in Produced :
         k + 1 \in Produced =>
           viewport_positions[k + 1] =
             <<Clamp(half_w, FrameWidth,
                     EmaSmooth(smoothing_factor, RoiOfFrame(k + 1)[1],
                               viewport_positions[k][1])),
               Clamp(half_h, FrameHeight,
                     EmaSmooth(smoothing_factor, RoiOfFrame(k + 1)[2],
                               viewport_positions[k][2]))>>

\* factor 1, the first ROI right of the bounds so that the clamp moved the
\* first position, and a second frame processed from it
C10_Witness ==
  /\ tracker = "ema" /\ smoothing_factor = Float10 /\ ValidViewport
  /\ Len(viewport_positions) >= 2
  /\ RoiOfFrame(1)[1] > FrameWidth - half_w
  /\ viewport_positions[1][1] = FrameWidth - half_w
  /\ viewport_positions[2][1] # viewport_positions[1][1]

(***************************************************************************)
(* Properties of calculate_region_of_interest on its own.                  *)
(***************************************************************************)
\* sum of f over the index set S
RECURSIVE SumOver(_, _)
SumOver(f, S) ==
  IF S = {} THEN 0
  ELSE LET k == CHOOSE k \in S : TRUE
       IN  f[k] + SumOver(f, S \ {k})

\* the reference quantities of the area-weighted centroid of roi_boxes:
\* a_k = w_k * h_k, c_k = (x_k + w_k // 2, y_k + h_k // 2)
RefArea == [k \in DOMAIN roi_boxes |-> roi_boxes[k][3] * roi_boxes[k][4]]
RefCenterX == [k \in DOMAIN roi_boxes |-> roi_boxes[k][1] + (roi_boxes[k][3] \div 2)]
RefCenterY == [k \in DOMAIN roi_boxes |-> roi_boxes[k][2] + (roi_boxes[k][4] \div 2)]
RefTotalArea == SumOver(RefArea, DOMAIN roi_boxes)
RefWeightedX ==
  SumOver([k \in DOMAIN roi_boxes |-> RefCenterX[k] * RefArea[k]], DOMAIN roi_boxes)
RefWeightedY ==
  SumOver([k \in DOMAIN roi_boxes |-> RefCenterY[k] * RefArea[k]], DOMAIN roi_boxes)

\* q is the quotient n / d truncated to an integer (n >= 0, d > 0)
IsTruncatedQuotient(q, n, d) == q * d <= n /\ n < (q + 1) * d

\* C2: a returned ROI is (W // 2, H // 2, 0, 0) for no boxes; otherwise it is
\* the truncated area-weighted mean of the box centers with extent (0, 0);
\* the two equal corner boxes give (50, 50); and of two boxes whose areas are
\* as 3 to 1 it is the (truncated) point 3/4 of the way from the smaller
\* box's center to the larger one's.
C2_WeightedCentroid ==
  roi_pc = "returned" =>
    /\ roi_boxes = <<>> =>
         roi_result = <<roi_shape[2] \div 2, roi_shape[1] \div 2, 0, 0>>
    /\ roi_boxes # <<>> =>
         /\ RefTotalArea > 0
         /\ IsTruncatedQuotient(roi_result[1], RefWeightedX, RefTotalArea)
         /\ IsTruncatedQuotient(roi_result[2], RefWeightedY, RefTotalArea)
         /\ roi_result[3] = 0 /\ roi_result[4] = 0
    /\ roi_boxes = CornerBoxes => roi_result = <<50, 50, 0, 0>>
    /\ \A s \in DOMAIN roi_boxes, l \in DOMAIN roi_boxes :
         (Len(roi_boxes) = 2 /\ RefArea[s] > 0 /\ RefArea[l] = 3 * RefArea[s]) =>
           /\ IsTruncatedQuotient(roi_result[1],
                                  4 * RefCenterX[s] + 3 * (RefCenterX[l] - RefCenterX[s]), 4)
           /\ IsTruncatedQuotient(roi_result[2],
                                  4 * RefCenterY[s] + 3 * (RefCenterY[l] - RefCenterY[s]), 4)

\* a returned ROI of two boxes with areas as 3 to 1 whose exact centroid is
\* not an integer point
C2_Witness ==
  /\ roi_pc = "returned" /\ Len(roi_boxes) = 2
  /\ RefArea[1] > 0 /\ RefArea[2] = 3 * RefArea[1]
  /\ RefCenterX[1] < RefCenterX[2]
  /\ roi_result[1] * RefTotalArea < RefWeightedX

\* C6: a call with a non-empty box list of total area zero ends with a
\* DegenerateAggregation error.
C6_DegenerateAggregation ==
  (roi_boxes # <<>> /\ RefTotalArea = 0 /\ roi_pc \in {"returned", "raised"}) =>
    (roi_pc = "raised" /\ roi_raised = "DegenerateAggregation")

====
